---- MODULE Spec2Model ----
(***************************************************************************)
(* Roket-Video-Maker: the bounded-concurrency batch runner                 *)
(* runWithConcurrency (ui.ts, lines 58-70) as a state machine.             *)
(*                                                                         *)
(* One invocation is modelled.  JavaScript runs the body of an async       *)
(* function without interruption between two awaits, so the runner has one *)
(* action per stretch of code between awaits (Call, RunnerResume); the     *)
(* promise machinery around a job has one action per reaction: the task's  *)
(* own promise settles (TaskSettle), its .finally callback deletes the     *)
(* handle from the executing set (FinallyCallback), the handle returned by *)
(* .finally settles and drives Promise.race / Promise.all (HandleSettle).  *)
(*                                                                         *)
(* retryWithBackoff (api.ts, lines 18-41) is modelled by operators on a    *)
(* record holding one invocation's locals; RetrySpec runs one invocation.  *)
(***************************************************************************)
EXTENDS Integers, Sequences, FiniteSets, TLC

\* Bounds of the model: the longest tasks array and the largest limit.
MaxTasks == 4
MaxLimit == 3

\* Bound of the retry model: the largest retries argument.
MaxRetries == 4

\* Bound of the call-site model: the most scenes (scripts, prompts) of a batch.
MaxScenes == 4

\* Bound of the two-invocation model: the longest tasks array of each.
MaxTasksEach == 2

\* Bounds of the results-container model: the most cards of a batch, and the
\* most clicks on Regenerate buttons of a run.
MaxCards == 2

MaxRegens == 2

\* Bound of the shared-state model: the most changes of the shared UI state
\* (a prompt edited, another actor selected, an image replaced) of a run.
MaxEdits == 1

VARIABLES
    tasks,        \* the tasks array: << 1, .., N >>, a task is named by its position
    limit,        \* the limit argument
    pc,           \* where the runner is: "called", "race", "all", "resolved", "rejected"
    idx,          \* how many elements the for-of iterator has consumed
    executing,    \* the Set executing (handles, named by their task)
    job,          \* state of the promise task() returned
    handle,       \* state of the promise task().finally(...) returned
    awaited,      \* the promise the runner awaits (Promise.race / Promise.all)
    startLog,     \* history: tasks in the order they were invoked
    suspendSize,  \* history: executing.size when the runner last suspended on race
    firstSuspend, \* history: number of tasks invoked when the runner first suspended
    lastAdmitted, \* history: number of tasks invoked by the last run of the loop
    retry,        \* one invocation of retryWithBackoff: its arguments and locals
    site,         \* the call site whose batch runs (AppSpec)
    appPc,        \* where the call site's handler is
    buttonDisabled, \* generateButton.disabled
    body,         \* per task: where the job closure is, and its retryWithBackoff
    card,         \* per task: what its result card (resultItem) shows
    attached,     \* the cards of the batch are children of resultsContainer
    assets,       \* state.generatedAssetUrls (descriptors named by their task)
    sleepSeen,    \* history: what happened while some job was in a backoff wait
    regen,        \* per card: the generation its Regenerate click started
    orphans,      \* regenerations in flight on cards of an earlier batch
    regenCount,   \* how many Regenerate clicks were handled
    inputs,       \* the shared UI state the requests read, and what they read
    img,          \* one invocation of generateImageWithPrompt, and its requests
    inv2          \* a second, concurrent invocation of runWithConcurrency (TwoSpec)

regenVars == << regen, orphans, regenCount >>

appVars == << site, appPc, buttonDisabled, body, card, attached, assets,
              sleepSeen, regen, orphans, regenCount, inputs, img >>

extraVars == << site, appPc, buttonDisabled, body, card, attached, assets,
                sleepSeen, regen, orphans, regenCount, inputs, img, inv2 >>

runnerVars == << tasks, limit, pc, idx, executing, job, handle, awaited,
                 startLog, suspendSize, firstSuspend, lastAdmitted >>

vars == << tasks, limit, pc, idx, executing, job, handle, awaited,
           startLog, suspendSize, firstSuspend,
           lastAdmitted, retry, site, appPc, buttonDisabled, body, card,
           attached, assets, sleepSeen, regen, orphans, regenCount, inputs,
           img, inv2 >>

Range(s) == { s[k] : k \in 1..Len(s) }

Min(a, b) == IF a <= b THEN a ELSE b

Jobs == 1..Len(tasks)

Settled == { "fulfilled", "rejected" }

NoPromise == [kind |-> "none", members |-> {}, state |-> "pending"]

\* Results of a retryWithBackoff invocation: the value or error of the k-th
\* call of fn, the error thrown by onRetry in round k, the Error of line 40.
NoResult == [src |-> "none", k |-> 0]

FnValue(k) == [src |-> "value", k |-> k]

FnError(k) == [src |-> "fn", k |-> k]

OnRetryError(k) == [src |-> "onRetry", k |-> k]

GenericError == [src |-> "generic", k |-> 0]

\* lines 18-24: an invocation with retries n, delay d, onRetry given or not.
\* log is the history of what the invocation did, in order.
RetryNew(n, d, h) ==
    [retries |-> n, delay0 |-> d, hasOnRetry |-> h, pc |-> "called",
     attempt |-> 0, delay |-> d, fnCalls |-> 0, okAt |-> 0,
     result |-> NoResult, log |-> << >>]

\* No invocation of retryWithBackoff.
RetryIdle == [RetryNew(0, 0, FALSE) EXCEPT !.pc = "idle"]

\* No second invocation of runWithConcurrency.
InvIdle ==
    [tasks |-> << >>, limit |-> 1, pc |-> "idle", idx |-> 0, executing |-> {},
     job |-> << >>, handle |-> << >>, awaited |-> NoPromise, startLog |-> << >>]

\* No request was sent.
NoRequest == [inputs |-> 0 - 1, refs |-> "none"]

\* The shared UI state at version now (a number that every change raises) and
\* what n cards know of it before any of their jobs has run: the version at
\* the submission of the batch, the request each job sent last, the version
\* each card recorded in its regenerate data and filename, and the pending
\* request of each card's regeneration.
InputsNew(n, now) ==
    [now |-> now, atSubmit |-> now,
     sent |-> [k \in 1..n |-> NoRequest],
     recorded |-> [k \in 1..n |-> 0 - 1],
     regenSent |-> [k \in 1..n |-> NoRequest]]

\* No invocation of generateImageWithPrompt; reqs is the history of the
\* responses to the requests sent so far.
ImgIdle == [pc |-> "idle", retryCount |-> 0, reqs |-> << >>]

\* No call site is involved: the runner or retryWithBackoff is run on its own.
AppIdle ==
    /\ site = "none"
    /\ appPc = "none"
    /\ buttonDisabled = FALSE
    /\ body = << >>
    /\ card = << >>
    /\ attached = FALSE
    /\ assets = << >>
    /\ sleepSeen = {}
    /\ regen = << >>
    /\ orphans = 0
    /\ regenCount = 0
    /\ inputs = InputsNew(0, 0)
    /\ img = ImgIdle

RunnerInit ==
    /\ \E n \in 0..MaxTasks : tasks = [k \in 1..n |-> k]
    /\ limit \in (0 - 1)..MaxLimit
    /\ pc = "called"
    /\ idx = 0
    /\ executing = {}
    /\ job = [k \in 1..Len(tasks) |-> "unstarted"]
    /\ handle = [k \in 1..Len(tasks) |-> "none"]
    /\ awaited = NoPromise
    /\ startLog = << >>
    /\ suspendSize = 0
    /\ firstSuspend = 0 - 1
    /\ lastAdmitted = 0

Init ==
    /\ RunnerInit
    /\ retry = RetryIdle
    /\ AppIdle
    /\ inv2 = InvIdle

----
\* Mutants of the admission test and of the iteration order (used by the claims).
ShouldWait_gt(size, lim) == size > lim

ShouldWait_always(size, lim) == TRUE

NextTask_rev(i) == tasks[Len(tasks) - i]

\* line 65: if (executing.size >= limit)
ShouldWait(size, lim) == size >= lim

\* line 60: for (const task of tasks), the element after i consumed ones
NextTask(i) == tasks[i + 1]

\* lines 60-69: the loop from iterator position i with executing set ex, run up
\* to the next await; st collects the tasks invoked on the way.
RECURSIVE Loop(_, _, _)
Loop(i, ex, st) ==
    IF i >= Len(tasks)
    THEN [pc |-> "all", idx |-> i, executing |-> ex, started |-> st]
    ELSE LET t == NextTask(i)
             ex2 == ex \cup {t}
         IN  IF ShouldWait(Cardinality(ex2), limit)
             THEN [pc |-> "race", idx |-> i + 1, executing |-> ex2,
                   started |-> Append(st, t)]
             ELSE Loop(i + 1, ex2, Append(st, t))

\* line 66: Promise.race(executing); line 69: Promise.all(Array.from(executing)).
\* Both subscribe to the handles in the set at the moment of the call;
\* Promise.all of no handle is fulfilled at once.
PromiseRace(ex) == [kind |-> "race", members |-> ex, state |-> "pending"]

PromiseAll(ex) ==
    [kind |-> "all", members |-> ex,
     state |-> IF ex = {} THEN "fulfilled" ELSE "pending"]

\* The effect of one uninterrupted run r of the loop on the state.
Admit(r) ==
    /\ pc' = r.pc
    /\ idx' = r.idx
    /\ executing' = r.executing
    /\ job' = [k \in Jobs |-> IF k \in Range(r.started) THEN "pending" ELSE job[k]]
    /\ handle' = [k \in Jobs |->
                    IF k \in Range(r.started) THEN "pending" ELSE handle[k]]
    /\ awaited' = IF r.pc = "race" THEN PromiseRace(r.executing)
                                   ELSE PromiseAll(r.executing)
    /\ startLog' = startLog \o r.started
    /\ suspendSize' = IF r.pc = "race" THEN Cardinality(r.executing)
                                       ELSE suspendSize
    /\ firstSuspend' = IF firstSuspend < 0 THEN Len(startLog')
                                           ELSE firstSuspend
    /\ lastAdmitted' = Len(r.started)
    /\ UNCHANGED << tasks, limit >>

\* line 58-69: the call; the body runs up to its first await.
Call ==
    /\ pc = "called"
    /\ Admit(Loop(0, {}, << >>))

\* The promise returned by task() settles (the job completes or fails).
TaskSettle(i, outcome) ==
    /\ job[i] = "pending"
    /\ job' = [job EXCEPT ![i] = outcome]
    /\ UNCHANGED << tasks, limit, pc, idx, executing, handle, awaited,
                    startLog, suspendSize, firstSuspend,
                    lastAdmitted >>

\* lines 61-63: the .finally callback of a settled task: executing.delete(promise)
FinallyCallback(i) ==
    /\ job[i] \in Settled
    /\ handle[i] = "pending"
    /\ i \in executing
    /\ executing' = executing \ {i}
    /\ UNCHANGED << tasks, limit, pc, idx, job, handle, awaited, startLog, suspendSize, firstSuspend,
                    lastAdmitted >>

\* What a settling member does to a pending Promise.race / Promise.all.
React(p, i, outcome) ==
    IF p.state # "pending" \/ i \notin p.members THEN p
    ELSE IF p.kind = "race" THEN [p EXCEPT !.state = outcome]
    ELSE IF outcome = "rejected" THEN [p EXCEPT !.state = "rejected"]
    ELSE [p EXCEPT !.members = p.members \ {i},
                   !.state = IF p.members \ {i} = {} THEN "fulfilled"
                                                    ELSE "pending"]

\* line 61: the promise .finally returned settles as the task did, after the
\* callback has run; the reactions of line 66 / line 69 fire.
HandleSettle(i) ==
    /\ job[i] \in Settled
    /\ handle[i] = "pending"
    /\ i \notin executing
    /\ handle' = [handle EXCEPT ![i] = job[i]]
    /\ awaited' = React(awaited, i, job[i])
    /\ UNCHANGED << tasks, limit, pc, idx, executing, job, startLog, suspendSize, firstSuspend,
                    lastAdmitted >>

\* lines 66-68: the awaited race is fulfilled, the loop goes on to the next await.
ResumeLoop ==
    /\ pc = "race"
    /\ awaited.state = "fulfilled"
    /\ Admit(Loop(idx, executing, << >>))

\* line 69: the awaited Promise.all is fulfilled, the function returns.
ResumeReturn ==
    /\ pc = "all"
    /\ awaited.state = "fulfilled"
    /\ pc' = "resolved"
    /\ awaited' = NoPromise
    /\ UNCHANGED << tasks, limit, idx, executing, job, handle, startLog, suspendSize, firstSuspend,
                    lastAdmitted >>

\* lines 66, 69: the awaited promise is rejected, await throws and the async
\* function's promise rejects (there is no try/catch in the function).
ResumeThrow ==
    /\ pc \in {"race", "all"}
    /\ awaited.state = "rejected"
    /\ pc' = "rejected"
    /\ awaited' = NoPromise
    /\ UNCHANGED << tasks, limit, idx, executing, job, handle, startLog, suspendSize, firstSuspend,
                    lastAdmitted >>

RunnerResume == ResumeLoop \/ ResumeReturn \/ ResumeThrow

Next ==
    \/ Call /\ UNCHANGED << retry, extraVars >>
    \/ \E i \in Jobs, o \in Settled : TaskSettle(i, o) /\ UNCHANGED << retry, extraVars >>
    \/ \E i \in Jobs : FinallyCallback(i) /\ UNCHANGED << retry, extraVars >>
    \/ \E i \in Jobs : HandleSettle(i) /\ UNCHANGED << retry, extraVars >>
    \/ ResumeLoop /\ UNCHANGED << retry, extraVars >>
    \/ ResumeReturn /\ UNCHANGED << retry, extraVars >>
    \/ ResumeThrow /\ UNCHANGED << retry, extraVars >>

Spec == Init /\ [][Next]_vars

\* The runner under the event loop's scheduling: a continuation that is ready
\* is run, and every job that was started settles (lines 58-70 register the
\* reactions; nothing unregisters them).
FairSpec == Init /\ [][Next]_vars /\ WF_vars(Next)

----
\* retryWithBackoff (api.ts, lines 18-41).

\* The delay arguments tried (1000 is the default of line 21, 2000 the value
\* the image storyboard passes).
InitialDelays == {0, 1, 100, 1000, 2000}

\* One entry of the history of an invocation.
Ev(e, n, err, d) == [ev |-> e, n |-> n, err |-> err, d |-> d]

\* Mutants of the retry code (used by the claims).
LoopTest_lt(attempt, retries) == attempt < retries

IsLastAttempt_never(attempt, retries) == FALSE

Rethrow_generic(error) == GenericError

NextDelay_same(d) == d

ReportedDelay_doubled(d) == d * 2

LoopTest_doWhile(attempt, retries) == attempt = 1 \/ attempt <= retries

\* line 25: while (attempt <= retries)
LoopTest(attempt, retries) == attempt <= retries

\* line 29: if (attempt === retries)
IsLastAttempt(attempt, retries) == attempt = retries

\* line 30: throw error
Rethrow(error) == error

\* line 36: delay *= 2
NextDelay(d) == d * 2

\* line 33: the delay handed to onRetry (the current one, before line 36)
ReportedDelay(d) == d

\* line 27: return await fn(), the value of the call that succeeded
ReturnValue(k) == FnValue(k)

\* lines 25-27 and 40: the loop test; either fn is invoked and awaited, or the
\* loop is left and line 40 throws.
EnterLoop(r) ==
    IF LoopTest(r.attempt, r.retries)
    THEN [r EXCEPT !.pc = "fn",
                   !.fnCalls = @ + 1,
                   !.log = Append(@, Ev("fn", r.attempt, 0, 0))]
    ELSE [r EXCEPT !.pc = "rejected", !.result = GenericError]

\* lines 24-27: the call: attempt = 1, then the loop up to the first await.
RetryCall(r) == EnterLoop([r EXCEPT !.attempt = 1])

\* line 27: the promise fn() returned settles.
FnSettled(r, ok) ==
    IF ok THEN [r EXCEPT !.pc = "fnOk", !.okAt = r.fnCalls,
                         !.log = Append(@, Ev("ok", r.attempt, 0, 0))]
          ELSE [r EXCEPT !.pc = "fnErr",
                         !.log = Append(@, Ev("fail", r.attempt, r.fnCalls, 0))]

\* Mutant: the value is not returned and the loop goes round again.
OnFnOk_again(r) == EnterLoop(r)

\* line 27: the await yields the value, the function returns it.
OnFnOk(r) == [r EXCEPT !.pc = "resolved", !.result = ReturnValue(r.fnCalls)]

\* Mutant: an error thrown by onRetry is held back until the delay has been
\* waited.
OnFnErr_lateThrow(r, throws) ==
    LET error == FnError(r.fnCalls)
        told == Append(r.log, Ev("onRetry", r.attempt, r.fnCalls, r.delay))
    IN  IF r.attempt = r.retries
        THEN [r EXCEPT !.pc = "rejected", !.result = error]
        ELSE IF r.hasOnRetry /\ throws
        THEN [r EXCEPT !.pc = "rejected", !.result = OnRetryError(r.attempt),
                       !.log = Append(Append(told,
                                  Ev("wait", r.attempt, 0, r.delay)),
                                  Ev("elapsed", r.attempt, 0, r.delay))]
        ELSE [r EXCEPT !.pc = "sleep",
                       !.log = Append(IF r.hasOnRetry THEN told ELSE r.log,
                                      Ev("wait", r.attempt, 0, r.delay))]

\* lines 28-35: the catch block up to the await of the timer; onRetry, when
\* given, returns or throws (throws = TRUE).
OnFnErr(r, throws) ==
    LET error == FnError(r.fnCalls)
        told == Append(r.log, Ev("onRetry", r.attempt, r.fnCalls,
                                 ReportedDelay(r.delay)))
    IN  IF IsLastAttempt(r.attempt, r.retries)
        THEN [r EXCEPT !.pc = "rejected", !.result = Rethrow(error)]
        ELSE IF r.hasOnRetry /\ throws
        THEN [r EXCEPT !.pc = "rejected", !.result = OnRetryError(r.attempt),
                       !.log = told]
        ELSE [r EXCEPT !.pc = "sleep",
                       !.log = Append(IF r.hasOnRetry THEN told ELSE r.log,
                                      Ev("wait", r.attempt, 0, r.delay))]

\* lines 35-37, 25-27: the timer fires: delay *= 2, attempt++, the loop test.
OnTimer(r) ==
    EnterLoop([r EXCEPT !.delay = NextDelay(r.delay),
                        !.attempt = r.attempt + 1,
                        !.log = Append(@, Ev("elapsed", r.attempt, 0, r.delay))])

\* One invocation of retryWithBackoff, with every retries, delay, onRetry.
RetryInit ==
    /\ tasks = << >>
    /\ limit = 1
    /\ pc = "idle"
    /\ idx = 0
    /\ executing = {}
    /\ job = << >>
    /\ handle = << >>
    /\ awaited = NoPromise
    /\ startLog = << >>
    /\ suspendSize = 0
    /\ firstSuspend = 0 - 1
    /\ lastAdmitted = 0
    /\ \E n \in (0 - 1)..MaxRetries, d \in InitialDelays, h \in BOOLEAN :
          retry = RetryNew(n, d, h)
    /\ AppIdle
    /\ inv2 = InvIdle

RetryInvoke ==
    /\ retry.pc = "called"
    /\ retry' = RetryCall(retry)
    /\ UNCHANGED << runnerVars, extraVars >>

RetryFnSettle(ok) ==
    /\ retry.pc = "fn"
    /\ retry' = FnSettled(retry, ok)
    /\ UNCHANGED << runnerVars, extraVars >>

RetryResumeOk ==
    /\ retry.pc = "fnOk"
    /\ retry' = OnFnOk(retry)
    /\ UNCHANGED << runnerVars, extraVars >>

RetryResumeErr(throws) ==
    /\ retry.pc = "fnErr"
    /\ retry' = OnFnErr(retry, throws)
    /\ UNCHANGED << runnerVars, extraVars >>

RetryTimer ==
    /\ retry.pc = "sleep"
    /\ retry' = OnTimer(retry)
    /\ UNCHANGED << runnerVars, extraVars >>

RetryNext ==
    \/ RetryInvoke
    \/ \E ok \in BOOLEAN : RetryFnSettle(ok)
    \/ RetryResumeOk
    \/ \E throws \in BOOLEAN : RetryResumeErr(throws)
    \/ RetryTimer

RetrySpec == RetryInit /\ [][RetryNext]_vars

----
\* Vocabulary of the claims.
OnRetryLog == SelectSeq(retry.log, LAMBDA e : e.ev = "onRetry")

WaitLog == SelectSeq(retry.log, LAMBDA e : e.ev = "wait")

LastEv == retry.log[Len(retry.log)]

Started(i) == i \in Range(startLog)

Completed(i) == job[i] \in Settled

InFlight == { i \in Jobs : job[i] = "pending" }

BatchSettled == pc \in {"resolved", "rejected"}

StartCount(i) == Cardinality({ k \in 1..Len(startLog) : startLog[k] = i })

PosIn(s, i) == CHOOSE k \in 1..Len(s) : s[k] = i

----
\* C1: with limit >= 1, the number of jobs started and not yet completed never
\* exceeds limit, whatever the number of tasks and the order of completions.
C1_BoundedConcurrency ==
    limit >= 1 => Cardinality(InFlight) <= limit

\* C1 witness: the window is full again after a completion freed a slot.
C1_Witness ==
    /\ limit >= 2
    /\ Len(tasks) > limit
    /\ \E i \in Jobs : Completed(i)
    /\ Len(startLog) > limit
    /\ Cardinality(InFlight) = limit

\* C2 (as claimed): every submitted job is eventually started and none is started
\* twice, whatever jobs fail (stated for a valid limit >= 1): once the batch promise has settled no job can be
\* started any more, so every job has been started by then, exactly once.
C2_EveryJobStartedOnce ==
    limit >= 1 =>
        /\ \A i \in Jobs : StartCount(i) <= 1
        /\ BatchSettled => \A i \in Jobs : StartCount(i) = 1

\* C3 (as claimed): the batch promise is never settled while a job of the batch
\* is unstarted or still in flight (stated for a valid limit >= 1).
C3_SettlesAfterAllJobs ==
    (limit >= 1 /\ BatchSettled) => \A i \in Jobs : Completed(i)

\* C4 (as claimed): failure isolation: after a job has rejected the runner still
\* starts every unstarted job and still awaits every job in flight, so it does
\* not finish before all jobs were started and have completed (stated for a
\* valid limit >= 1).
C4_FailureIsolation ==
    \A i \in Jobs :
        (limit >= 1 /\ job[i] = "rejected" /\ BatchSettled)
            => \A j \in Jobs : Started(j) /\ Completed(j)

\* C5 (as claimed): with limit >= 1 the batch promise never rejects on account
\* of a job's failure.
C5_NeverRejects ==
    limit >= 1 => pc # "rejected"

\* C6 (as claimed): called with limit < 1 the runner starts no job and does not
\* resolve normally.
C6_LimitBelowOneFails ==
    limit < 1 => (startLog = << >> /\ pc # "resolved")

\* C7: jobs are started in submission order: when job j has been started, every
\* job i < j has been started, and earlier than j.
C7_StartOrder ==
    \A j \in Jobs : Started(j) =>
        \A i \in 1..(j - 1) :
            Started(i) /\ PosIn(startLog, i) < PosIn(startLog, j)

\* C7 witness: three jobs started in order although job 2 completed while
\* job 1 is still in flight.
C7_Witness ==
    /\ Len(startLog) >= 3
    /\ Completed(2)
    /\ job[1] = "pending"
    /\ startLog[3] = 3

\* C8: sliding window: with limit L >= 1, the job at position k + L (k >= 1) is
\* started only when at least k of the jobs at positions 1..k+L-1 have completed
\* (in every step that starts it).
C8_StartsAfterEnoughCompletions ==
    limit >= 1 =>
        \A j \in Jobs :
            (j > limit /\ j \notin Range(startLog) /\ j \in Range(startLog'))
                => Cardinality({ i \in 1..(j - 1) : Completed(i) }) >= j - limit

C8_SlidingWindow == [][C8_StartsAfterEnoughCompletions]_vars

\* C8 witness: 4 jobs, limit 2; job 3 is in flight with only job 2 completed
\* before it, and job 4 has been started with exactly two jobs completed.
C8_Witness ==
    /\ Len(tasks) = 4
    /\ limit = 2
    /\ Started(4)
    /\ Completed(1) /\ Completed(2)
    /\ job[3] = "pending" /\ job[4] = "pending"

\* C9: work conservation. (a) whenever the runner is suspended on the race, the
\* executing set held exactly limit handles when it suspended; (b) the first
\* min(N, limit) jobs are all started before the first suspension; (c) a run of
\* the loop after a wake-up starts jobs until the set is full again or the
\* tasks are exhausted, however many jobs completed meanwhile (the step that
\* replaces a fulfilled race is the runner's wake-up).
C9_SuspendedOnlyWhenFull ==
    (limit >= 1 /\ pc = "race") => suspendSize = limit

C9_FirstWindow ==
    (limit >= 1 /\ firstSuspend >= 0) => firstSuspend = Min(Len(tasks), limit)

C9_RefillOnWake ==
    (limit >= 1 /\ pc = "race" /\ awaited.state = "fulfilled" /\ awaited' # awaited) =>
        /\ Len(startLog') - Len(startLog)
              = Min(Len(tasks) - idx, limit - Cardinality(executing))
        /\ lastAdmitted' = Len(startLog') - Len(startLog)

C9_WorkConservation ==
    /\ [](C9_SuspendedOnlyWhenFull /\ C9_FirstWindow)
    /\ [][C9_RefillOnWake]_vars

\* C9 witness: after the first window, a wake-up in which two jobs had
\* completed started two jobs in one run and suspended with the set full.
C9_Witness ==
    /\ limit >= 2
    /\ pc = "race"
    /\ firstSuspend = limit
    /\ lastAdmitted >= 2
    /\ Len(startLog) = firstSuspend + lastAdmitted
    /\ suspendSize = limit

\* C10: completion order is free: whenever job B, submitted after job A, has
\* completed while A has not yet completed, A was nevertheless started before B.
C10_CompletionOrderFree ==
    \A a \in Jobs : \A b \in Jobs :
        (a < b /\ Completed(b) /\ ~Completed(a))
            => (Started(a) /\ PosIn(startLog, a) < PosIn(startLog, b))

\* C10 witness: with limit >= 2, B has completed and A, submitted and started
\* before it, is still in flight.
C10_Witness ==
    /\ limit >= 2
    /\ \E a \in Jobs : \E b \in Jobs :
          /\ a < b
          /\ Completed(b)
          /\ job[a] = "pending"
          /\ PosIn(startLog, a) < PosIn(startLog, b)

----
\* C11: with retries n >= 1, an onRetry that returns normally and an fn that
\* fails on every call: fn is never invoked more than n times, and once the
\* promise has rejected fn was invoked exactly n times, onRetry exactly n - 1
\* times with attempts 1..n-1 in increasing order, n - 1 delays were waited,
\* and nothing (no onRetry, no wait) followed the n-th failure.
C11_ExhaustsAfterNAttempts ==
    (retry.retries >= 1 /\ retry.hasOnRetry /\ retry.okAt = 0) =>
        /\ retry.fnCalls <= retry.retries
        /\ (retry.pc = "rejected" /\ retry.result.src # "onRetry") =>
              /\ retry.fnCalls = retry.retries
              /\ Len(OnRetryLog) = retry.retries - 1
              /\ \A k \in 1..Len(OnRetryLog) : OnRetryLog[k].n = k
              /\ Len(WaitLog) = retry.retries - 1
              /\ LastEv = Ev("fail", retry.retries, retry.retries, 0)

\* C11 witness: three attempts all failed, onRetry was told twice, rejected.
C11_Witness ==
    /\ retry.retries = 3
    /\ retry.hasOnRetry
    /\ retry.pc = "rejected"
    /\ retry.fnCalls = 3
    /\ Len(OnRetryLog) = 2

\* C12: exponential backoff: the k-th delay waited is initialDelay * 2^(k-1),
\* it follows the k-th failed attempt, and the delay handed to onRetry for
\* attempt k is the same value.
C12_ExponentialBackoff ==
    /\ \A k \in 1..Len(WaitLog) :
          /\ WaitLog[k].n = k
          /\ WaitLog[k].d = retry.delay0 * 2^(k - 1)
    /\ \A k \in 1..Len(OnRetryLog) :
          OnRetryLog[k].d = retry.delay0 * 2^(OnRetryLog[k].n - 1)

\* C12 witness: initial delay 100, the delays 100, 200, 400 were waited and
\* reported to onRetry.
C12_Witness ==
    /\ retry.delay0 = 100
    /\ retry.hasOnRetry
    /\ Len(WaitLog) = 3
    /\ WaitLog[3].d = 400
    /\ OnRetryLog[2].d = 200

\* C13: when the last allowed attempt has failed and the promise has rejected,
\* the rejection is the error of that last call of fn.
C13_RejectsWithLastError ==
    (/\ retry.retries >= 1
     /\ retry.pc = "rejected"
     /\ Len(retry.log) > 0
     /\ LastEv.ev = "fail"
     /\ LastEv.n = retry.retries)
        => retry.result = FnError(retry.fnCalls)

\* C13 witness: the third of three attempts failed and its error was rejected.
C13_Witness ==
    /\ retry.retries = 3
    /\ retry.pc = "rejected"
    /\ retry.result = FnError(3)

\* C14: success short-circuit: once the k-th call of fn has succeeded
\* (k <= retries), fn has been invoked exactly k times and is not invoked
\* again, onRetry (when given) was invoked exactly k - 1 times, and the promise
\* resolves with the value of the k-th call; it resolves in no other case.
C14_SuccessShortCircuit ==
    /\ retry.okAt > 0 =>
          /\ retry.okAt <= retry.retries
          /\ retry.fnCalls = retry.okAt
          /\ retry.pc \in {"fnOk", "resolved"}
          /\ retry.pc = "resolved" => retry.result = FnValue(retry.okAt)
          /\ Len(OnRetryLog) = (IF retry.hasOnRetry THEN retry.okAt - 1 ELSE 0)
    /\ retry.pc = "resolved" => retry.okAt > 0

\* C14 witness: fn failed once, succeeded on the second call, resolved.
C14_Witness ==
    /\ retry.retries = 3
    /\ retry.hasOnRetry
    /\ retry.pc = "resolved"
    /\ retry.okAt = 2
    /\ Len(OnRetryLog) = 1

\* C15: order inside a retry round: attempt k + 1 is immediately preceded by
\* the end of the wait of round k, that by the start of the same wait, that
\* (when onRetry is given) by onRetry(k, error of call k, the same delay), and
\* that by the failure of attempt k; while the wait runs nothing follows it.
C15_RoundAt(p) ==
    LET k == retry.log[p].n - 1
        w == retry.log[p - 2]
        q == IF retry.hasOnRetry THEN p - 3 ELSE p - 2
    IN  /\ p >= 4
        /\ w.ev = "wait" /\ w.n = k
        /\ retry.log[p - 1] = Ev("elapsed", k, 0, w.d)
        /\ retry.hasOnRetry => retry.log[p - 3] = Ev("onRetry", k, k, w.d)
        /\ q >= 2
        /\ retry.log[q - 1] = Ev("fail", k, k, 0)

C15_RoundOrder ==
    /\ \A p \in 1..Len(retry.log) :
          (retry.log[p].ev = "fn" /\ retry.log[p].n >= 2) => C15_RoundAt(p)
    /\ retry.pc = "sleep" => LastEv.ev = "wait"

\* C15 witness: two full rounds with onRetry, the third attempt has begun.
C15_Witness ==
    /\ retry.hasOnRetry
    /\ retry.delay0 = 100
    /\ retry.pc = "fn"
    /\ retry.attempt = 3
    /\ retry.log[Len(retry.log) - 3] = Ev("onRetry", 2, 2, 200)

\* C16: for retries >= 1 the fallback of line 40 is unreachable: every
\* rejection carries an error thrown by fn or by onRetry.
C16_NoGenericFailure ==
    (retry.retries >= 1 /\ retry.pc = "rejected")
        => retry.result.src \in {"fn", "onRetry"}

\* C16 witness: all attempts of an invocation with retries >= 2 are used up
\* and the promise has rejected.
C16_Witness ==
    /\ retry.retries >= 2
    /\ retry.pc = "rejected"
    /\ retry.fnCalls = retry.retries

\* ---------------------------------------------------------------------------
\* The four batch call sites: generateImageStoryboard, runVideoStoryboardGeneration,
\* runVoiceOverGeneration, runProductStudioGeneration.  Each builds one job
\* closure per scene (script line, prompt) and hands them to runWithConcurrency.

Sites == { "image-storyboard", "video-storyboard", "voice-over", "product-studio" }

IMAGE_CONCURRENCY_LIMIT == 3

VIDEO_CONCURRENCY_LIMIT == 2

AUDIO_CONCURRENCY_LIMIT == 3

\* product-studio.ts has its own IMAGE_CONCURRENCY_LIMIT.
ProductStudioLimit == 3

\* The arguments of the one retryWithBackoff call among the call sites.
StoryboardRetries == 3

StoryboardDelay == 2000

SiteLimit(s) ==
    CASE s = "image-storyboard" -> IMAGE_CONCURRENCY_LIMIT
      [] s = "video-storyboard" -> VIDEO_CONCURRENCY_LIMIT
      [] s = "voice-over"       -> AUDIO_CONCURRENCY_LIMIT
      [] s = "product-studio"   -> ProductStudioLimit

\* Only the image storyboard wraps its generation call in retryWithBackoff.
UsesRetry(s) == s = "image-storyboard"

\* Only runProductStudioGeneration awaits an API call before it builds the batch.
DescribesFirst(s) == s = "product-studio"

\* A closure that was built and not called yet.
BodyQueued == [at |-> "queued", r |-> RetryIdle]

BodyDone == [at |-> "done", r |-> RetryIdle]

ClosureOutcome_rethrow(s, ok) == IF ok THEN "fulfilled" ELSE "rejected"

HoldsThread_busyWait(r) == r.pc = "sleep"

CardAfter_requeue(ok) == "waiting"

AssetsAfter_always(a, i, ok) == Append(a, i)

ButtonOnModeSwitch_enable(b) == FALSE

\* How the promise of a job closure settles when its generation call (with
\* its retries, if any) has succeeded (ok) or failed: the try block completes,
\* or the catch block renders the error card and completes.  The prompts are
\* well-formed strings, so rendering the card does not throw.
ClosureOutcome(s, ok) == "fulfilled"

\* What the result card shows when the closure ends.
CardAfter(ok) == IF ok THEN "result" ELSE "error"

\* state.generatedAssetUrls (a) when the closure of task i ends: a closure
\* that got a result pushes one descriptor, the catch block pushes none.
AssetsAfter(a, i, ok) == IF ok THEN Append(a, i) ELSE a

\* generateButton.disabled after the sidebar handler: the handler has no
\* statement that writes it.
ButtonOnModeSwitch(b) == b

\* The phases of a result card: queued, in progress, terminal.
CardQueued == { "waiting" }

CardInProgress == { "generating", "retrying" }

CardTerminal == { "result", "error" }

\* Whether a card of call site s that shows c holds a Regenerate button.  The
\* result and error cards of the two storyboards and of the product studio
\* hold one; the cards of the voice-over hold none.
OffersRegenerate(s, c) == c \in CardTerminal /\ s # "voice-over"

\* api.ts line 35: the wait is an awaited timer promise, so a retry that waits
\* does not hold the thread: other continuations run meanwhile.
HoldsThread(r) == FALSE

ThreadFree == \A i \in Jobs : ~HoldsThread(body[i].r)

ThreadFreeFor(i) == \A j \in Jobs \ {i} : ~HoldsThread(body[j].r)

Sleeping(i) == body[i].at = "gen" /\ body[i].r.pc = "sleep"

\* The closure's first statements, up to its await: the card shows
\* "Generating ..." and the generation call is made (through retryWithBackoff
\* at the image storyboard, whose onRetry rewrites the card and returns).
BodyStart(s) ==
    [at |-> "gen",
     r  |-> IF UsesRetry(s)
            THEN RetryCall(RetryNew(StoryboardRetries, StoryboardDelay, TRUE))
            ELSE RetryIdle]

\* ---------------------------------------------------------------------------
\* runWithConcurrency as operators on the record v of one invocation's
\* arguments and locals, so that a whole microtask chain (and a second
\* invocation) can be computed.  Same statements as the actions above.

\* The invocation whose state the variables of the runner hold.
Cur ==
    [tasks |-> tasks, limit |-> limit, pc |-> pc, idx |-> idx,
     executing |-> executing, job |-> job, handle |-> handle,
     awaited |-> awaited, startLog |-> startLog]

RJobs(v) == 1..Len(v.tasks)

\* lines 60-68: one uninterrupted run of the loop from index i.
RECURSIVE RLoop(_, _, _, _)
RLoop(v, i, ex, st) ==
    IF i >= Len(v.tasks)
    THEN [pc |-> "all", idx |-> i, executing |-> ex, started |-> st]
    ELSE LET t == v.tasks[i + 1]
             ex2 == ex \cup {t}
         IN  IF ShouldWait(Cardinality(ex2), v.limit)
             THEN [pc |-> "race", idx |-> i + 1, executing |-> ex2,
                   started |-> Append(st, t)]
             ELSE RLoop(v, i + 1, ex2, Append(st, t))

RAdmit(v, run) ==
    [v EXCEPT !.pc = run.pc,
              !.idx = run.idx,
              !.executing = run.executing,
              !.job = [k \in RJobs(v) |->
                         IF k \in Range(run.started) THEN "pending" ELSE v.job[k]],
              !.handle = [k \in RJobs(v) |->
                         IF k \in Range(run.started) THEN "pending"
                                                     ELSE v.handle[k]],
              !.awaited = IF run.pc = "race" THEN PromiseRace(run.executing)
                                             ELSE PromiseAll(run.executing),
              !.startLog = v.startLog \o run.started]

RCall(v) == RAdmit(v, RLoop(v, 0, {}, << >>))

RTaskSettle(v, i, outcome) == [v EXCEPT !.job[i] = outcome]

RFinally(v, i) == [v EXCEPT !.executing = v.executing \ {i}]

RHandleSettle(v, i) ==
    [v EXCEPT !.handle[i] = v.job[i],
              !.awaited = React(v.awaited, i, v.job[i])]

\* lines 66-69: the continuation of the runner, if its awaited promise is settled.
RResume(v) ==
    IF v.pc \in {"race", "all"} /\ v.awaited.state = "rejected"
    THEN [v EXCEPT !.pc = "rejected", !.awaited = NoPromise]
    ELSE IF v.pc = "race" /\ v.awaited.state = "fulfilled"
    THEN RAdmit(v, RLoop(v, v.idx, v.executing, << >>))
    ELSE IF v.pc = "all" /\ v.awaited.state = "fulfilled"
    THEN [v EXCEPT !.pc = "resolved", !.awaited = NoPromise]
    ELSE v

\* The microtasks that follow the settling of job i's promise, run to the end
\* before the next timer or network event: the .finally callback, the handle,
\* the reaction of the awaited promise, the runner's continuation(s).
RECURSIVE RDrain(_)
RDrain(v) == LET w == RResume(v) IN IF w = v THEN v ELSE RDrain(w)

RAfterSettle(v, i) == RDrain(RHandleSettle(RFinally(v, i), i))

\* The variables of the runner take the invocation state v.
SetRunner(v) ==
    /\ tasks' = v.tasks
    /\ limit' = v.limit
    /\ pc' = v.pc
    /\ idx' = v.idx
    /\ executing' = v.executing
    /\ job' = v.job
    /\ handle' = v.handle
    /\ awaited' = v.awaited
    /\ startLog' = v.startLog
    /\ UNCHANGED << suspendSize, firstSuspend, lastAdmitted >>

\* The jobs the runner has started between invocation states v and w.
NewlyStarted(v, w) == Range(w.startLog) \ Range(v.startLog)

\* The handler after "await runWithConcurrency(...)": the completion status is
\* shown and the generate button is enabled; if the batch promise rejected
\* the await throws and the two statements are skipped.
HandlerAfter(v) ==
    IF v.pc = "resolved" THEN "done"
    ELSE IF v.pc = "rejected" THEN "threw"
    ELSE "batch"

ButtonAfter(v, s, b) ==
    IF v.pc = "resolved" THEN FALSE
    ELSE IF v.pc = "rejected" /\ s \in {"image-storyboard", "video-storyboard"}
    THEN FALSE
    ELSE b

\* A new invocation of runWithConcurrency at call site s over n tasks.
NewBatch(s, n) ==
    [tasks |-> [k \in 1..n |-> k], limit |-> SiteLimit(s), pc |-> "called",
     idx |-> 0, executing |-> {}, job |-> [k \in 1..n |-> "unstarted"],
     handle |-> [k \in 1..n |-> "none"], awaited |-> NoPromise,
     startLog |-> << >>]

\* Whether the generation b of a call site has a request at the backend: the
\* call is pending (a retryWithBackoff that waits has none).
RequestInFlight(b) == b.at = "gen" /\ (b.r.pc # "idle" => b.r.pc = "fn")

\* The reference images a batch job of call site s sends with its prompt.
JobRefs(s) ==
    CASE s = "image-storyboard" -> "model+product"
      [] s = "video-storyboard" -> "scene"
      [] s = "voice-over"       -> "voice"
      [] s = "product-studio"   -> "product"

\* The version of the shared UI state a request of a batch job reads, a the
\* version at submission and n the version when the request is sent.  The
\* closures hold the scene objects and the state module, not copies, and read
\* them when they call the API (at every attempt, at the image storyboard).
RequestInputs(s, a, n) == n

\* The version a job records when it ends, in the filename (voice-over) or in
\* the data attributes of the Regenerate button (image storyboard): read from
\* the shared state then.  The video card records the scene's id and the
\* product-studio card the prompt built at submission.
RecordedInputs(s, a, n) ==
    IF s \in {"image-storyboard", "voice-over"} THEN n ELSE a

\* Whether the step from b0 to b1 of a job closure sends a request.
SendsRequest(b0, b1) ==
    /\ RequestInFlight(b1)
    /\ ~RequestInFlight(b0) \/ b0.r.fnCalls # b1.r.fnCalls

\* inputs after a step of the batch's closures from old to new.
InputsOnJobs(inp, s, old, new) ==
    [inp EXCEPT
       !.sent = [k \in 1..Len(new) |->
                   IF SendsRequest(old[k], new[k])
                   THEN [inputs |-> RequestInputs(s, inp.atSubmit, inp.now),
                         refs |-> JobRefs(s)]
                   ELSE inp.sent[k]],
       !.recorded = [k \in 1..Len(new) |->
                   IF new[k].at = "done" /\ old[k].at # "done"
                   THEN RecordedInputs(s, inp.atSubmit, inp.now)
                   ELSE inp.recorded[k]]]

\* The batch v is submitted: cards are appended, runWithConcurrency is called
\* and runs to its first await, and each admitted closure runs to its await.
Submit(v) ==
    \E w \in { RCall(v) } :
        /\ SetRunner(w)
        /\ body' = [k \in RJobs(w) |-> IF k \in Range(w.startLog)
                                       THEN BodyStart(site) ELSE BodyQueued]
        /\ card' = [k \in RJobs(w) |-> IF k \in Range(w.startLog)
                                       THEN "generating" ELSE "waiting"]
        /\ attached' = TRUE
        /\ appPc' = "batch"
        /\ inputs' = InputsOnJobs(InputsNew(Len(w.tasks), inputs.now), site,
                                  [k \in RJobs(w) |-> BodyQueued], body')

\* The cards whose Regenerate click started a generation that has not settled.
Regenerating == { k \in 1..Len(regen) : regen[k].at = "gen" }

\* The browser dispatches no click to a disabled button.
ClickEnabled == ~buttonDisabled

\* The click on Generate with n scenes to generate: the handler up to its
\* first await.  (The first click finds the scenes of the initial state.)  The
\* button is disabled, the results container and the asset list are emptied;
\* then either the product description is awaited, or the batch is submitted.
Click(n) ==
    /\ appPc \in {"idle", "done"}
    /\ appPc = "idle" => n = Len(tasks)
    /\ ClickEnabled
    /\ buttonDisabled' = TRUE
    /\ assets' = << >>
    /\ sleepSeen' = {}
    /\ IF DescribesFirst(site)
       THEN /\ appPc' = "describing"
            /\ attached' = FALSE
            /\ SetRunner(NewBatch(site, n))
            /\ body' = [k \in 1..n |-> BodyQueued]
            /\ card' = [k \in 1..n |-> "none"]
            /\ inputs' = InputsNew(n, inputs.now)
       ELSE Submit(NewBatch(site, n))
    /\ regen' = [k \in 1..n |-> BodyQueued]
    /\ orphans' = orphans + Cardinality(Regenerating)
    /\ UNCHANGED << site, retry, regenCount, inv2, img >>

\* product-studio.ts line 214: getProductDescription settles.  Fulfilled: the
\* batch is submitted.  Rejected: the await throws (it is in no try block)
\* and the handler's promise rejects.
DescribeSettle(ok) ==
    /\ appPc = "describing"
    /\ IF ok
       THEN Submit(Cur)
       ELSE /\ appPc' = "threw"
            /\ UNCHANGED << runnerVars, body, card, attached, inputs >>
    /\ UNCHANGED << site, buttonDisabled, assets, retry, sleepSeen, regenVars,
                    inv2, img >>

\* The rest of a closure once its generation call has succeeded or failed for
\* good: push the asset and render the result, or render the error; the
\* closure's promise settles and the microtasks that follow run: the runner
\* may admit jobs (their closures run to their await) or return, and then the
\* handler goes on.
JobEnd(i, ok) ==
    \E v \in { RTaskSettle(Cur, i, ClosureOutcome(site, ok)) } :
    \E w \in { RAfterSettle(v, i) } :
    \E new \in { NewlyStarted(v, w) } :
    \E asleep \in { \E j \in Jobs \ {i} : Sleeping(j) } :
        /\ SetRunner(w)
        /\ body' = [k \in Jobs |->
                      IF k = i THEN BodyDone
                      ELSE IF k \in new THEN BodyStart(site)
                      ELSE body[k]]
        /\ card' = [k \in Jobs |->
                      IF k = i THEN CardAfter(ok)
                      ELSE IF k \in new THEN "generating"
                      ELSE card[k]]
        /\ assets' = AssetsAfter(assets, i, ok)
        /\ appPc' = HandlerAfter(w)
        /\ buttonDisabled' = ButtonAfter(w, site, buttonDisabled)
        /\ sleepSeen' = IF ~asleep THEN sleepSeen
                        ELSE sleepSeen \cup {"completed"} \cup
                             (IF new # {} THEN {"admitted"} ELSE {})

RunnerOnWait_release(v, i) == RAfterSettle(RTaskSettle(v, i, "fulfilled"), i)

\* The invocation v when the retryWithBackoff of job i's closure goes on
\* without settling (it waits, or calls fn again): the closure's promise is
\* still pending, so its .finally callback has not run and the runner's
\* locals are as they were.
RunnerOnWait(v, i) == v

\* A closure goes on after a step r2 of its retryWithBackoff.
JobContinue(i, r2) ==
    IF r2.pc \in {"resolved", "rejected"}
    THEN JobEnd(i, r2.pc = "resolved")
    ELSE /\ body' = [body EXCEPT ![i].r = r2]
         /\ card' = [card EXCEPT ![i] =
                        IF r2.pc = "sleep" THEN "retrying" ELSE card[i]]
         /\ SetRunner(RunnerOnWait(Cur, i))
         /\ UNCHANGED << assets, appPc, buttonDisabled, sleepSeen >>

\* Video storyboard, voice-over, product studio: the generation call settles.
JobApiSettle(i, ok) ==
    /\ appPc = "batch"
    /\ ~UsesRetry(site)
    /\ body[i].at = "gen"
    /\ ThreadFree
    /\ JobEnd(i, ok)
    /\ inputs' = InputsOnJobs(inputs, site, body, body')
    /\ UNCHANGED << retry, site, attached, regenVars, inv2, img >>

\* When the continuation of job i's pending generation call can run: the
\* call is pending and no one holds the thread.  (The whole guard of JobFnSettle,
\* whose effect is defined in every state.)
FnCanSettle(i) ==
    /\ appPc = "batch"
    /\ UsesRetry(site)
    /\ body[i].at = "gen"
    /\ body[i].r.pc = "fn"
    /\ ThreadFree

\* Image storyboard: the generation call of the current attempt settles and
\* retryWithBackoff goes on (return, rethrow, or onRetry and the wait).
JobFnSettle(i, ok) ==
    /\ FnCanSettle(i)
    /\ \E r1 \in { FnSettled(body[i].r, ok) } :
       \E r2 \in { IF ok THEN OnFnOk(r1) ELSE OnFnErr(r1, FALSE) } :
          JobContinue(i, r2)
    /\ inputs' = InputsOnJobs(inputs, site, body, body')
    /\ UNCHANGED << retry, site, attached, regenVars, inv2, img >>

\* Image storyboard: the backoff timer of a waiting job fires.
JobTimer(i) ==
    /\ appPc = "batch"
    /\ Sleeping(i)
    /\ ThreadFreeFor(i)
    /\ \E r2 \in { OnTimer(body[i].r) } : JobContinue(i, r2)
    /\ inputs' = InputsOnJobs(inputs, site, body, body')
    /\ UNCHANGED << retry, site, attached, regenVars, inv2, img >>

\* A click on a sidebar mode button: the results container and the asset list
\* are emptied.  The handler writes neither the generate button nor anything
\* the runner or a closure holds.
ModeSwitch ==
    /\ appPc # "none"
    /\ ThreadFree
    /\ attached' = FALSE
    /\ assets' = << >>
    /\ buttonDisabled' = ButtonOnModeSwitch(buttonDisabled)
    /\ UNCHANGED << runnerVars, retry, site, appPc, body, card, sleepSeen,
                    regenVars, inputs, inv2, img >>

AppInit ==
    /\ site \in Sites
    /\ \E n \in 1..MaxScenes : tasks = [k \in 1..n |-> k]
    /\ limit = SiteLimit(site)
    /\ pc = "called"
    /\ idx = 0
    /\ executing = {}
    /\ job = [k \in Jobs |-> "unstarted"]
    /\ handle = [k \in Jobs |-> "none"]
    /\ awaited = NoPromise
    /\ startLog = << >>
    /\ suspendSize = 0
    /\ firstSuspend = 0 - 1
    /\ lastAdmitted = 0
    /\ retry = RetryIdle
    /\ appPc = "idle"
    /\ buttonDisabled = FALSE
    /\ body = [k \in Jobs |-> BodyQueued]
    /\ card = [k \in Jobs |-> "none"]
    /\ attached = FALSE
    /\ assets = << >>
    /\ sleepSeen = {}
    /\ regen = [k \in Jobs |-> BodyQueued]
    /\ orphans = 0
    /\ regenCount = 0
    /\ inputs = InputsNew(Len(tasks), 0)
    /\ img = ImgIdle
    /\ inv2 = InvIdle

\* What moves a run forward: everything but the user's mode switch.
AppProgress ==
    \/ \E n \in 1..MaxScenes : Click(n)
    \/ \E ok \in BOOLEAN : DescribeSettle(ok)
    \/ \E i \in Jobs, ok \in BOOLEAN : JobApiSettle(i, ok)
    \/ \E i \in Jobs, ok \in BOOLEAN : JobFnSettle(i, ok)
    \/ \E i \in Jobs : JobTimer(i)

AppNext == AppProgress \/ ModeSwitch

AppSpec == AppInit /\ [][AppNext]_vars

\* The call sites under the event loop's scheduling: while a backend call is
\* pending or a timer is set, one of them settles or fires and the ready
\* continuations run.
AppFairSpec == AppInit /\ [][AppNext]_vars /\ WF_vars(AppProgress)

\* ---------------------------------------------------------------------------
\* The Regenerate buttons of the result cards: the delegated click listener of
\* the results container.  Its three branches call the generation API
\* themselves, outside any runWithConcurrency call.

RegenRetries == 3

RegenDelay == 2000

\* Only the branch of .regenerate-button (the image storyboard's cards) wraps
\* its call in retryWithBackoff.
RegenUsesRetry(s) == s = "image-storyboard"

\* What the call sites' requests generate.
RequestKind(s) ==
    CASE s = "image-storyboard" -> "image"
      [] s = "product-studio"   -> "image"
      [] s = "video-storyboard" -> "video"
      [] s = "voice-over"       -> "audio"

CardOnRegenerate_keep(c) == c

\* setLoadingState: the card's content c, button included, is replaced by the
\* "Regenerating..." message before the handler's first await.
CardOnRegenerate(c) == "regenerating"

\* The reference images a Regenerate click sends: the model and product
\* images of the button's data attributes, the scene found by its id; the
\* single-image branch sends none (its referenceImages array is empty).
RegenRefs(s) == IF s = "product-studio" THEN "none" ELSE JobRefs(s)

\* The version of the inputs a Regenerate click sends: the one recorded in
\* the button's data attributes, or (video) the scene's prompt as it is at
\* the click.
RegenInputs(s, rec, n) == IF s = "video-storyboard" THEN n ELSE rec

\* The handler up to its await: the generation call is made.
RegenStart(s) ==
    [at |-> "gen",
     r  |-> IF RegenUsesRetry(s)
            THEN RetryCall(RetryNew(RegenRetries, RegenDelay, TRUE))
            ELSE RetryIdle]

\* The card when the regeneration has succeeded (ok) or failed for good: the
\* new result with its button; the error with its button in the video and
\* single-image branches, the error alone in the .regenerate-button branch.
RegenCardAfter(s, ok) ==
    IF ok THEN "result"
    ELSE IF RegenUsesRetry(s) THEN "regen-failed" ELSE "error"

\* state.generatedAssetUrls (a) when the regeneration of card i ends: a result
\* is pushed; the entry of the asset the card showed before is not removed.
RegenAssets(a, i, ok) == IF ok THEN Append(a, i) ELSE a

BatchRequests == { k \in Jobs : RequestInFlight(body[k]) }

RegenRequests == { k \in 1..Len(regen) : RequestInFlight(regen[k]) }

\* The requests of regenerations on cards of an earlier batch: each has its
\* request pending, unless the branch retries (then it may be waiting, and
\* none is counted).
OrphanRequests == IF RegenUsesRetry(site) THEN 0 ELSE orphans

\* The requests in flight, of the batch and of the Regenerate clicks.
RequestsInFlight ==
    Cardinality(BatchRequests) + Cardinality(RegenRequests) + OrphanRequests

\* A click on the Regenerate button of card i.  The listener is on the results
\* container, so the card is one of its children; the button is in the card.
RegenClick(i) ==
    /\ attached
    /\ OffersRegenerate(site, card[i])
    /\ regenCount < MaxRegens
    /\ ThreadFree
    /\ card' = [card EXCEPT ![i] = CardOnRegenerate(card[i])]
    /\ regen' = [regen EXCEPT ![i] = RegenStart(site)]
    /\ regenCount' = regenCount + 1
    /\ inputs' = [inputs EXCEPT !.regenSent[i] =
                     [inputs |-> RegenInputs(site, inputs.recorded[i],
                                             inputs.now),
                      refs |-> RegenRefs(site)]]
    /\ UNCHANGED << runnerVars, retry, site, appPc, buttonDisabled, body,
                    attached, assets, sleepSeen, orphans, inv2, img >>

\* The rest of the handler once its generation call has settled for good.
RegenEnd(i, ok) ==
    /\ regen' = [regen EXCEPT ![i] = BodyQueued]
    /\ card' = [card EXCEPT ![i] = RegenCardAfter(site, ok)]
    /\ assets' = RegenAssets(assets, i, ok)
    /\ inputs' = [inputs EXCEPT !.sent[i] = inputs.regenSent[i],
                                !.regenSent[i] = NoRequest]

\* A handler goes on after a step r2 of its retryWithBackoff.
RegenContinue(i, r2) ==
    IF r2.pc \in {"resolved", "rejected"}
    THEN RegenEnd(i, r2.pc = "resolved")
    ELSE /\ regen' = [regen EXCEPT ![i].r = r2]
         /\ card' = [card EXCEPT ![i] =
                        IF r2.pc = "sleep" THEN "regen-retrying" ELSE card[i]]
         /\ UNCHANGED << assets, inputs >>

\* Video and single-image branches: the generation call settles.
RegenApiSettle(i, ok) ==
    /\ ~RegenUsesRetry(site)
    /\ regen[i].at = "gen"
    /\ ThreadFree
    /\ RegenEnd(i, ok)
    /\ UNCHANGED << runnerVars, retry, site, appPc, buttonDisabled, body,
                    attached, sleepSeen, orphans, regenCount, inv2, img >>

\* .regenerate-button branch: the call of the current attempt settles.
RegenFnSettle(i, ok) ==
    /\ RegenUsesRetry(site)
    /\ regen[i].at = "gen"
    /\ regen[i].r.pc = "fn"
    /\ ThreadFree
    /\ \E r1 \in { FnSettled(regen[i].r, ok) } :
       \E r2 \in { IF ok THEN OnFnOk(r1) ELSE OnFnErr(r1, FALSE) } :
          RegenContinue(i, r2)
    /\ UNCHANGED << runnerVars, retry, site, appPc, buttonDisabled, body,
                    attached, sleepSeen, orphans, regenCount, inv2, img >>

\* .regenerate-button branch: the backoff timer of a waiting handler fires.
RegenTimer(i) ==
    /\ regen[i].at = "gen"
    /\ regen[i].r.pc = "sleep"
    /\ ThreadFree
    /\ \E r2 \in { OnTimer(regen[i].r) } : RegenContinue(i, r2)
    /\ UNCHANGED << runnerVars, retry, site, appPc, buttonDisabled, body,
                    attached, sleepSeen, orphans, regenCount, inv2, img >>

\* A regeneration on a card of an earlier batch ends (with its retries, if
\* any): its handler still holds the card and pushes the result's descriptor,
\* named 0 as it is of no card of the current batch.
OrphanSettle(ok) ==
    /\ orphans > 0
    /\ ThreadFree
    /\ orphans' = orphans - 1
    /\ assets' = RegenAssets(assets, 0, ok)
    /\ UNCHANGED << runnerVars, retry, site, appPc, buttonDisabled, body, card,
                    attached, sleepSeen, regen, regenCount, inputs, inv2,
                    img >>

\* The user changes the shared UI state: edits a scene's prompt, selects
\* another voice actor, uploads another image.  The state modifiers assign in
\* place; no handler of these controls looks at a running batch.
Edit ==
    /\ appPc # "none"
    /\ inputs.now < MaxEdits
    /\ ThreadFree
    /\ inputs' = [inputs EXCEPT !.now = @ + 1]
    /\ UNCHANGED << runnerVars, retry, site, appPc, buttonDisabled, body, card,
                    attached, assets, sleepSeen, regenVars, inv2, img >>

UiInit ==
    /\ AppInit
    /\ Len(tasks) <= MaxCards

UiNext ==
    \/ \E n \in 1..MaxCards : Click(n)
    \/ \E ok \in BOOLEAN : DescribeSettle(ok)
    \/ \E i \in Jobs, ok \in BOOLEAN : JobApiSettle(i, ok)
    \/ \E i \in Jobs, ok \in BOOLEAN : JobFnSettle(i, ok)
    \/ \E i \in Jobs : JobTimer(i)
    \/ ModeSwitch
    \/ \E i \in Jobs : RegenClick(i)
    \/ \E i \in Jobs, ok \in BOOLEAN : RegenApiSettle(i, ok)
    \/ \E i \in Jobs, ok \in BOOLEAN : RegenFnSettle(i, ok)
    \/ \E i \in Jobs : RegenTimer(i)
    \/ \E ok \in BOOLEAN : OrphanSettle(ok)

UiSpec == UiInit /\ [][UiNext]_vars

\* The batches while the user goes on using the inputs.
EditNext ==
    \/ \E n \in 1..MaxCards : Click(n)
    \/ \E ok \in BOOLEAN : DescribeSettle(ok)
    \/ \E i \in Jobs, ok \in BOOLEAN : JobApiSettle(i, ok)
    \/ \E i \in Jobs, ok \in BOOLEAN : JobFnSettle(i, ok)
    \/ \E i \in Jobs : JobTimer(i)
    \/ ModeSwitch
    \/ Edit

EditSpec == UiInit /\ [][EditNext]_vars

\* ---------------------------------------------------------------------------
\* One job of the image storyboard down to its backend requests:
\* retryWithBackoff around generateImageWithPrompt, which repeats its request
\* once when the model answers with text instead of an image.

MAX_RETRIES == 1

\* What a request can come back with: an image part (with or without text),
\* text only, neither (or no candidate at all), or a rejected call.
Responses == { "image", "text", "empty", "error" }

MayRetryText_le(retryCount) == retryCount <= MAX_RETRIES

\* api.ts line 105: else if (textPart && retryCount < MAX_RETRIES)
MayRetryText(retryCount) == retryCount < MAX_RETRIES

\* api.ts lines 65-92: generateImageWithPrompt is called with retryCount rc
\* and runs to the await of its request.
ImgRequest(g, rc) ==
    [g EXCEPT !.pc = "request", !.retryCount = rc,
              !.reqs = Append(@, "pending")]

\* api.ts lines 93-126: the request has come back with kind: the image is
\* returned; text leads to the wait before the one repetition; everything
\* else is thrown, and the catch block throws it on.
ImgOnResponse(g, kind) ==
    \* the history, with the pending request's response filled in
    LET seen == [g.reqs EXCEPT ![Len(g.reqs)] = kind]
    IN  IF kind = "image"
        THEN [g EXCEPT !.pc = "returned", !.reqs = seen]
        ELSE IF kind = "text" /\ MayRetryText(g.retryCount)
        THEN [g EXCEPT !.pc = "textWait", !.reqs = seen]
        ELSE [g EXCEPT !.pc = "threw", !.reqs = seen]

\* api.ts lines 109-110: the wait is over, the function calls itself with
\* retryCount + 1 and returns or throws what that call returns or throws.
ImgOnTextTimer(g) == ImgRequest(g, g.retryCount + 1)

\* What the image actions leave alone.
imgFrame == << runnerVars, site, appPc, buttonDisabled, body, card, attached,
               assets, sleepSeen, regenVars, inputs, inv2 >>

\* retryWithBackoff has invoked fn: the closure calls generateImageWithPrompt.
ImgStart ==
    /\ retry.pc = "fn"
    /\ img.pc = "idle"
    /\ img' = ImgRequest(img, 0)
    /\ UNCHANGED << retry, imgFrame >>

ImgResponse(kind) ==
    /\ img.pc = "request"
    /\ img' = ImgOnResponse(img, kind)
    /\ UNCHANGED << retry, imgFrame >>

ImgTextTimer ==
    /\ img.pc = "textWait"
    /\ img' = ImgOnTextTimer(img)
    /\ UNCHANGED << retry, imgFrame >>

\* The promise of generateImageWithPrompt, which is the promise fn returned,
\* settles.
ImgSettle ==
    /\ retry.pc = "fn"
    /\ img.pc \in {"returned", "threw"}
    /\ retry' = FnSettled(retry, img.pc = "returned")
    /\ img' = [img EXCEPT !.pc = "idle", !.retryCount = 0]
    /\ UNCHANGED imgFrame

\* A job with the call site's delay and onRetry, and every number of retries
\* from 1 (the call site passes StoryboardRetries).
ImgInit ==
    /\ tasks = << >>
    /\ limit = 1
    /\ pc = "idle"
    /\ idx = 0
    /\ executing = {}
    /\ job = << >>
    /\ handle = << >>
    /\ awaited = NoPromise
    /\ startLog = << >>
    /\ suspendSize = 0
    /\ firstSuspend = 0 - 1
    /\ lastAdmitted = 0
    /\ \E n \in 1..MaxRetries : retry = RetryNew(n, StoryboardDelay, TRUE)
    /\ AppIdle
    /\ inv2 = InvIdle

\* The call site's onRetry writes the card's text and returns.
ImgNext ==
    \/ RetryInvoke
    \/ ImgStart
    \/ \E kind \in Responses : ImgResponse(kind)
    \/ ImgTextTimer
    \/ ImgSettle
    \/ RetryResumeOk
    \/ RetryResumeErr(FALSE)
    \/ RetryTimer

ImgSpec == ImgInit /\ [][ImgNext]_vars

\* ---------------------------------------------------------------------------
\* Two invocations of runWithConcurrency at the same time: the first in the
\* variables of the runner, the second in inv2.  Each call has its own
\* tasks, limit, index and executing set (locals of lines 58-60).

TwoLimits == {1, 2}

Jobs2 == RJobs(inv2)

Call2 ==
    /\ inv2.pc = "called"
    /\ inv2' = RCall(inv2)
    /\ UNCHANGED << runnerVars, retry, appVars >>

TaskSettle2(i, outcome) ==
    /\ inv2.job[i] = "pending"
    /\ inv2' = RTaskSettle(inv2, i, outcome)
    /\ UNCHANGED << runnerVars, retry, appVars >>

FinallyCallback2(i) ==
    /\ inv2.job[i] \in Settled
    /\ inv2.handle[i] = "pending"
    /\ i \in inv2.executing
    /\ inv2' = RFinally(inv2, i)
    /\ UNCHANGED << runnerVars, retry, appVars >>

HandleSettle2(i) ==
    /\ inv2.job[i] \in Settled
    /\ inv2.handle[i] = "pending"
    /\ i \notin inv2.executing
    /\ inv2' = RHandleSettle(inv2, i)
    /\ UNCHANGED << runnerVars, retry, appVars >>

Resume2 ==
    /\ inv2.pc \in {"race", "all"}
    /\ inv2.awaited.state # "pending"
    /\ inv2' = RResume(inv2)
    /\ UNCHANGED << runnerVars, retry, appVars >>

TwoInit ==
    /\ \E n \in 1..MaxTasksEach : tasks = [k \in 1..n |-> k]
    /\ limit \in TwoLimits
    /\ pc = "called"
    /\ idx = 0
    /\ executing = {}
    /\ job = [k \in Jobs |-> "unstarted"]
    /\ handle = [k \in Jobs |-> "none"]
    /\ awaited = NoPromise
    /\ startLog = << >>
    /\ suspendSize = 0
    /\ firstSuspend = 0 - 1
    /\ lastAdmitted = 0
    /\ retry = RetryIdle
    /\ AppIdle
    /\ \E n \in 1..MaxTasksEach, l \in TwoLimits :
          inv2 = [tasks |-> [k \in 1..n |-> k], limit |-> l, pc |-> "called",
                  idx |-> 0, executing |-> {},
                  job |-> [k \in 1..n |-> "unstarted"],
                  handle |-> [k \in 1..n |-> "none"],
                  awaited |-> NoPromise, startLog |-> << >>]

TwoNext ==
    \/ Next
    \/ Call2
    \/ \E i \in Jobs2, o \in Settled : TaskSettle2(i, o)
    \/ \E i \in Jobs2 : FinallyCallback2(i)
    \/ \E i \in Jobs2 : HandleSettle2(i)
    \/ Resume2

TwoSpec == TwoInit /\ [][TwoNext]_vars

\* C17 (as claimed): once the runner has been called with a valid limit and
\* every started job settles, the batch promise eventually settles after all
\* jobs of the batch were started and have completed.
C17_RunsToCompletion ==
    (limit >= 1) => <>(BatchSettled /\ \A i \in Jobs : Started(i) /\ Completed(i))

\* C19: the inter-attempt wait of retryWithBackoff is non-blocking.  While a
\* job of the batch waits in its backoff delay, the generation call of every
\* other job in flight can settle (JobFnSettle is enabled for it, with either
\* outcome), and when such a job
\* completes while jobs are still queued the runner admits the next one into
\* the slot it frees.
C19_NonBlockingWait ==
    \A i \in Jobs : Sleeping(i) =>
        \A j \in Jobs \ {i} :
            (body[j].at = "gen" /\ body[j].r.pc = "fn") =>
                /\ FnCanSettle(j)
                /\ LET v == RTaskSettle(Cur, j, "fulfilled")
                       w == RAfterSettle(v, j)
                   IN  /\ w.job[i] = "pending"
                       /\ idx < Len(tasks) => NewlyStarted(v, w) = {tasks[idx + 1]}

\* A job is waiting in a backoff delay, and while a job was waiting another
\* job has completed and a queued job has been admitted.
C19_Witness ==
    /\ \E i \in Jobs : Sleeping(i)
    /\ sleepSeen = {"completed", "admitted"}

C18_OwnLimit ==
    /\ Cardinality(InFlight) <= limit
    /\ Cardinality({ i \in Jobs2 : inv2.job[i] = "pending" }) <= inv2.limit

\* C18, second part: no step of one invocation (a job completing, the runner
\* resuming) changes anything of the other: it starts no job of the other and
\* changes no executing set, index or awaited promise of the other.
C18_NoInterference == [][Cur' = Cur \/ inv2' = inv2]_vars

\* C18 (as claimed): two concurrent invocations are independent: each keeps
\* its own limit over its own jobs, and each is settled only when all of its
\* own jobs were started and have completed.
C18_Independent ==
    /\ C18_OwnLimit
    /\ BatchSettled => \A i \in Jobs : Started(i) /\ Completed(i)
    /\ inv2.pc \in {"resolved", "rejected"} =>
          \A i \in Jobs2 : inv2.job[i] \in Settled

\* C21: the phases of the result card of a batch job.  At every moment of a
\* submitted batch a card is queued exactly while its job has not been
\* started, in progress exactly while its job is in flight, and in one
\* terminal phase (succeeded or failed) exactly when its job has completed;
\* and in every step of a batch a card keeps its phase or moves forward in the
\* order queued, in progress, terminal: it never returns to queued and never
\* leaves or changes its terminal phase.
C21_PhaseMatchesJob ==
    appPc \in {"batch", "done"} =>
        \A i \in Jobs :
            /\ card[i] \in CardQueued \cup CardInProgress \cup CardTerminal
            /\ card[i] \in CardQueued <=> job[i] = "unstarted"
            /\ card[i] \in CardInProgress <=> job[i] = "pending"
            /\ card[i] \in CardTerminal <=> Completed(i)

C21_Rank(c) ==
    IF c \in CardQueued THEN 1
    ELSE IF c \in CardInProgress THEN 2
    ELSE IF c \in CardTerminal THEN 3
    ELSE 0

C21_PhaseOrder ==
    (appPc = "batch" /\ appPc' \in {"batch", "done"}) =>
        \A i \in Jobs :
            /\ C21_Rank(card'[i]) >= C21_Rank(card[i])
            /\ card[i] \in CardTerminal => card'[i] = card[i]

C22_FailedCardOffersRetry ==
    \A i \in Jobs : card[i] = "error" => OffersRegenerate(site, card[i])

\* The jobs of the batch whose closure got a result.
Succeeded == { i \in Jobs : card[i] = "result" }

C26_ButtonReenabled == buttonDisabled ~> ~buttonDisabled

C29_SlotHeld ==
    /\ Cardinality(InFlight) <= limit
    /\ \A i \in Jobs : Sleeping(i) =>
          (job[i] = "pending" /\ handle[i] = "pending" /\ i \in executing)

C29_WaitAdmitsNone ==
    (\E i \in Jobs : /\ i \in DOMAIN body'
                     /\ body[i].at = "gen"
                     /\ body'[i].at = "gen"
                     /\ body'[i] # body[i])
        => UNCHANGED << startLog, executing, job, handle, idx, pc, awaited >>

C29_SlotKeptWhileRetrying == []C29_SlotHeld /\ [][C29_WaitAdmitsNone]_vars

\* A job waits in its backoff delay while the batch is at its limit and a
\* job is still queued behind it.
C29_Witness ==
    /\ \E i \in Jobs : Sleeping(i)
    /\ Cardinality(InFlight) = limit
    /\ \E j \in Jobs : job[j] = "unstarted"

\* The invocation in the variables of the runner, had it been called with
\* limit = 1.
C30_AsLimitOne(v) == [v EXCEPT !.limit = 1]

\* C30: called with limit <= 0 the runner behaves exactly as with limit = 1.
\* In every state of such a call, the call itself and every continuation of
\* the runner do what they would do with limit = 1; at most one job is in
\* flight; the jobs are started in submission order; the call raises no error
\* of its own (it rejects only where a job has rejected, as with limit = 1);
\* and it resolves only after every job was started and has completed.
C30_NonPositiveLimitIsOne ==
    limit < 1 =>
        /\ pc = "called" =>
              RCall(C30_AsLimitOne(Cur)) = C30_AsLimitOne(RCall(Cur))
        /\ RResume(C30_AsLimitOne(Cur)) = C30_AsLimitOne(RResume(Cur))
        /\ Cardinality(InFlight) <= 1
        /\ \A k \in 1..Len(startLog) : startLog[k] = tasks[k]
        /\ pc = "rejected" => \E i \in Jobs : job[i] = "rejected"
        /\ pc = "resolved" => \A i \in Jobs : Started(i) /\ job[i] = "fulfilled"

\* A call with limit <= 0 over several tasks has resolved.
C30_Witness ==
    /\ limit < 1
    /\ pc = "resolved"
    /\ Len(tasks) >= 3

\* C23: at most IMAGE_CONCURRENCY_LIMIT image requests and at most
\* VIDEO_CONCURRENCY_LIMIT video requests are in flight at any time, the
\* requests of the batch's jobs and those of Regenerate clicks counted together.
C23_RequestsWithinLimit ==
    /\ RequestKind(site) = "image" =>
          RequestsInFlight <= IMAGE_CONCURRENCY_LIMIT
    /\ RequestKind(site) = "video" =>
          RequestsInFlight <= VIDEO_CONCURRENCY_LIMIT

\* C25: every descriptor of generatedAssetUrls is of an asset that a card of
\* the results container shows now: its card is in the container and shows a
\* result, and no other entry is of the same card (an entry that survived the
\* card's regeneration, or was pushed after the cards were cleared).
C25_AssetsShown ==
    \A k \in 1..Len(assets) :
        /\ attached
        /\ assets[k] \in 1..Len(card)
        /\ card[assets[k]] = "result"
        /\ \A m \in 1..Len(assets) : m # k => assets[m] # assets[k]

\* C28, state part: a card that holds a Regenerate button has no generation
\* in flight or queued (its batch job is done and no regeneration of it is
\* pending), and the batch job and a regeneration of one card never overlap.
C28_ButtonOnlyWhenIdle ==
    \A i \in 1..Len(card) :
        /\ OffersRegenerate(site, card[i]) =>
              body[i].at = "done" /\ regen[i].at # "gen"
        /\ ~(body[i].at = "gen" /\ regen[i].at = "gen")

\* C28, step part: a Regenerate click is handled only on a card with no
\* generation in flight, and the card holds no button once it is handled.
C28_ClickStartsOne ==
    \A i \in 1..Len(card) :
        (regenCount' > regenCount /\ regen'[i] # regen[i]) =>
            /\ regen[i].at # "gen"
            /\ body[i].at = "done"
            /\ ~OffersRegenerate(site, card'[i])

\* C28: no card ever has two generations in flight: the Regenerate button is
\* there only in a terminal phase and goes as soon as a regeneration starts.
C28_OneGenerationPerCard ==
    []C28_ButtonOnlyWhenIdle /\ [][C28_ClickStartsOne]_vars

\* A card of the container is being regenerated, not for the first time of
\* the run, while a job of the batch is in flight.
C28_Witness ==
    /\ attached
    /\ regenCount >= 2
    /\ \E i \in Jobs : regen[i].at = "gen" /\ ~OffersRegenerate(site, card[i])
    /\ \E i \in Jobs : body[i].at = "gen"

C32_OnRetryThrowStops ==
    (retry.pc = "rejected" /\ retry.result.src = "onRetry") =>
        /\ retry.hasOnRetry
        /\ retry.result = OnRetryError(retry.attempt)
        /\ retry.attempt < retry.retries
        /\ retry.fnCalls = retry.attempt
        /\ LastEv.ev = "onRetry"
        /\ LastEv.n = retry.attempt
        /\ Len(WaitLog) = retry.attempt - 1

\* onRetry threw on the second of four attempts, after one full round.
C32_Witness ==
    /\ retry.retries = 4
    /\ retry.pc = "rejected"
    /\ retry.result = OnRetryError(2)
    /\ retry.fnCalls = 2

\* C33: the inputs of a batch job are those of the submission: every request
\* a job of the batch has sent read the shared UI state as it was when the
\* batch was submitted, whatever the user changed before the request was
\* sent, that is, while the job was queued or between two of its attempts.
C33_InputsOfSubmission ==
    appPc \in {"batch", "done"} =>
        \A k \in Jobs :
            inputs.sent[k] # NoRequest =>
                inputs.sent[k].inputs = inputs.atSubmit

\* C34: a Regenerate click re-issues the request of the generation that
\* produced its card: the same inputs (prompt, aspect ratio) and the same
\* reference images.
C34_RegenerateSameRequest ==
    \A k \in Regenerating : inputs.regenSent[k] = inputs.sent[k]

\* C35: one image-storyboard job sends at most 6 backend requests: at most
\* MAX_RETRIES + 1 = 2 per attempt of retryWithBackoff (retryCount never
\* exceeds MAX_RETRIES) and at most retries = 3 attempts; and a request that
\* came back with an image is the job's last request.
C35_RequestsPerJob ==
    /\ Len(img.reqs) <= retry.retries * (MAX_RETRIES + 1)
    /\ retry.retries = StoryboardRetries => Len(img.reqs) <= 6
    /\ Len(img.reqs) <= retry.fnCalls * (MAX_RETRIES + 1)
    /\ img.retryCount <= MAX_RETRIES
    /\ \A p \in 1..(Len(img.reqs) - 1) : img.reqs[p] # "image"
    /\ (Len(img.reqs) > 0 /\ img.reqs[Len(img.reqs)] = "image") =>
          /\ img.pc \in {"returned", "idle"}
          /\ retry.pc \in {"fn", "fnOk", "resolved"}

\* Three attempts of two requests each: five answered with text, the sixth
\* with the image the job resolved with.
C35_Witness ==
    /\ retry.retries = StoryboardRetries
    /\ retry.pc = "resolved"
    /\ Len(img.reqs) = 6
    /\ img.reqs[6] = "image"

====
